---- MODULE Spec2Model ----
(***************************************************************************)
(* Selene: the index lifecycle (setup_vector_store / create_vector_store / *)
(* reset_vector_store), the retriever and the chunker of selene_bot.py     *)
(* (the CLI) and web_app.py (the Flask app).  Both programs keep their    *)
(* Chroma store in the same directory, chroma_db, under different         *)
(* collection names.                                                       *)
(***************************************************************************)
EXTENDS Integers, Sequences, FiniteSets, TLC

\* ------------------------------------------------------------------ bounds
\* builds (calls that reach Chroma.from_documents) per behaviour
MaxBuilds == 2

\* the longest page text the chunker is given
MaxPageLen == 7
\* RecursiveCharacterTextSplitter(chunk_size=1000, chunk_overlap=100), scaled
\* down to sizes whose page texts can be enumerated
chunk_size == 4
chunk_overlap == 1

\* ------------------------------------------------------- program constants
\* search_kwargs={"k": 3}
K == 3

PDF_NAME == "Sexual_Offences_Act_2003.pdf"
OTHER_PDF == "other.pdf"
\* the PDF files the data directory can hold, and the number of passages the
\* splitter makes of each
Files == {PDF_NAME, OTHER_PDF}
NumChunks(f) == IF f = PDF_NAME THEN 1 ELSE 2
MaxChunks == NumChunks(PDF_NAME) + NumChunks(OTHER_PDF)
CLI_COLLECTION_NAME == "vawg_documents"
WEB_COLLECTION_NAME == "sexual_offences_act"
Collections == {CLI_COLLECTION_NAME, WEB_COLLECTION_NAME}
\* the /chat requests the Flask server handles at the same time (app.run
\* serves each request on a thread of its own)
Requests == {"r1", "r2"}
BuildIds == 1..(MaxBuilds + 1)
Queries == {"q1", "q2"}

VARIABLES
    data,       \* the PDF files in the data directory
    disk,       \* the chroma_db directory
    cli,        \* the selene_bot.py process: pc and its rag_chain
    ragChain,   \* web_app.py's global rag_chain
    req,        \* the /chat requests being handled
    nextBuild,  \* the id the next build stamps on its passages
    last,       \* history: the last index event
    answer,     \* what the step just taken answered, if it was a query
    index,      \* retriever: the passages of the collection queried
    question,   \* retriever: the query
    docs,       \* retriever: the passages returned, nearest first
    page,       \* chunker: the page text being split
    chunks      \* chunker: the passages the splitter made of it

vars == <<data, disk, cli, ragChain, req, nextBuild, last, answer,
          index, question, docs, page, chunks>>
\* the lifecycle's variables, and those of the retriever and of the chunker
mainVars == <<data, disk, cli, ragChain, req, nextBuild, last, answer>>
aux == <<index, question, docs, page, chunks>>

\* ------------------------------------------------------------- the store
\* A stored passage: chunk idx of file src, written by build number build,
\* which set out to write `of` passages.
Passage == [src : Files, idx : 1..MaxChunks, build : BuildIds, of : 1..MaxChunks]

EmptyCols == [c \in Collections |-> {}]
\* no chroma_db directory
Absent == [exists |-> FALSE, corrupt |-> FALSE, made |-> {}, cols |-> EmptyCols]

\* A Chroma object: the collection it was opened on.  live: its directory is
\* still the one on disk; otherwise snap is what the deleted files hold.
NoHandle == [col |-> "none", live |-> FALSE, snap |-> {}]
LiveHandle(col) == [col |-> col, live |-> TRUE, snap |-> {}]

Content(h, d) == IF h.live THEN d.cols[h.col] ELSE h.snap

\* shutil.rmtree under an open Chroma client: the client keeps the unlinked
\* files, so its handle goes on reading what they held.
Freeze(h, d) ==
    IF h.live THEN [h EXCEPT !.live = FALSE, !.snap = d.cols[h.col]] ELSE h

\* Chroma(persist_directory, embedding_function, collection_name): the
\* client's get_or_create_collection makes the directory and the collection
\* when they are missing; it raises on a store it cannot read.
ChromaInit(d, col) ==
    [exists |-> TRUE, corrupt |-> d.corrupt, made |-> d.made \cup {col},
     cols |-> d.cols]

AddPassages(d, col, ps) == [d EXCEPT !.cols[col] = @ \cup ps]

\* ---------------------------------------------------------- the loader
RECURSIVE FileChunks(_, _, _, _)
FileChunks(f, b, n, of) ==
    IF n = 0 THEN <<>>
    ELSE Append(FileChunks(f, b, n - 1, of),
                [src |-> f, idx |-> n, build |-> b, of |-> of])

\* text_splitter.split_documents(all_documents): the passages of the files,
\* file by file, in order
split_documents(files, b) ==
    LET of == (IF PDF_NAME \in files THEN NumChunks(PDF_NAME) ELSE 0)
              + (IF OTHER_PDF \in files THEN NumChunks(OTHER_PDF) ELSE 0) IN
    (IF PDF_NAME \in files THEN FileChunks(PDF_NAME, b, NumChunks(PDF_NAME), of) ELSE <<>>)
    \o (IF OTHER_PDF \in files
        THEN FileChunks(OTHER_PDF, b, NumChunks(OTHER_PDF), of) ELSE <<>>)

Prefix(s, n) == {s[i] : i \in 1..n}
Range(s) == {s[i] : i \in 1..Len(s)}

\* ------------------------------------------------------- the history
\* what a store holds: a build is whole in it when all its passages are there
Stored(ps, b) == {p \in ps : p.build = b}
HasPartial(ps) == \E p \in ps : Cardinality(Stored(ps, p.build)) < p.of
HasWhole(ps) == \E p \in ps : Cardinality(Stored(ps, p.build)) = p.of

\* The last index event: op ("setup", "reset", "corpus", "corrupt", "abandon":
\* a setup call cut short by the restart of its process), who ran
\* it, how it went, the texts sent to the embedder, seq (nothing else touched
\* the index while it ran), after (the event before it: "built" for a setup
\* that built with nothing else running, "reset", or "other"), what the store
\* it returned holds (stale: passages written before the reset it follows),
\* pre (the directory as the call found it) and, of a reset, mark: the id of
\* the next build; chain: whether the web app's setup_rag_chain, called on
\* the store the call returned, gave the chain ("set") or raised ("raised").
NoEvent ==
    [op |-> "none", who |-> "none", how |-> "none", embedded |-> 0,
     seq |-> TRUE, after |-> "none", stale |-> FALSE, whole |-> FALSE,
     partial |-> FALSE, pre |-> "none", mark |-> 0, chain |-> "none"]

After(e) ==
    IF e.op = "setup" /\ e.how = "built" /\ e.seq THEN "built"
    ELSE IF e.op = "reset" THEN "reset"
    ELSE IF e.op = "none" THEN "none"
    ELSE "other"

\* what the call returned to its caller
Ret(e) ==
    IF e.how \in {"opened", "built"} THEN "store"
    ELSE IF e.how = "nodocs" THEN "None"
    ELSE IF e.how \in {"partial", "failed"} THEN "raise"
    ELSE "none"
\* create_vector_store was entered
RanCreate(e) == e.how \in {"built", "partial", "failed", "nodocs"}

NoAnswer == [who |-> "none", outcome |-> "none", absent |-> FALSE, building |-> FALSE]

NoReq ==
    [pc |-> "idle", vs |-> NoHandle, sawNone |-> FALSE, dirty |-> FALSE,
     pre |-> "none", build |-> 0]

InSetup(r) == r.pc \in {"setup", "create", "embed"}
\* every call in flight has now overlapped another operation
MarkDirty(rq) ==
    [r \in Requests |-> IF InSetup(rq[r]) THEN [rq[r] EXCEPT !.dirty = TRUE] ELSE rq[r]]
FreezeReqs(rq, d) == [r \in Requests |-> [rq[r] EXCEPT !.vs = Freeze(@, d)]]

\* ------------------------------------------------- selene_bot.py: the index
\* What a call that can build gives: the directory afterwards, the store it
\* returns, how it went ("opened", "built", "partial": raised with part of the
\* passages stored, "failed": raised before any, "nodocs": returned None) and
\* the number of texts sent to the embedder.
Outcome(d, store, how, embedded) ==
    [disk |-> d, store |-> store, how |-> how, embedded |-> embedded]

\* Chroma.from_documents(documents=chunks, ..., persist_directory, collection_name):
\* the constructor (the same one load_existing_vector_store calls), then every
\* text embedded, then the passages upserted in batches under fresh ids.  The
\* embedder or an upsert can fail, or the caller be interrupted, with a prefix
\* of the passages stored.
from_documents(d, col, cs) ==
    IF d.exists /\ d.corrupt
    THEN {Outcome(d, NoHandle, "failed", 0)}
    ELSE LET d0 == ChromaInit(d, col) IN
         {Outcome(AddPassages(d0, col, Range(cs)), LiveHandle(col), "built", Len(cs))}
         \cup {Outcome(AddPassages(d0, col, Prefix(cs, n)), NoHandle,
                       "partial", Len(cs)) : n \in 0..(Len(cs) - 1)}

create_vector_store(d, files, b) ==
    IF files = {}
    THEN {Outcome(d, NoHandle, "nodocs", 0)}
    ELSE from_documents(d, CLI_COLLECTION_NAME, split_documents(files, b))

load_existing_vector_store(d, col) ==
    IF d.corrupt
    THEN [raised |-> TRUE, disk |-> d, store |-> NoHandle]
    ELSE [raised |-> FALSE, disk |-> ChromaInit(d, col), store |-> LiveHandle(col)]

setup_vector_store_always_creates(d, files, b) == create_vector_store(d, files, b)

setup_vector_store(d, files, b) ==
    IF d.exists
    THEN LET l == load_existing_vector_store(d, CLI_COLLECTION_NAME) IN
         IF ~l.raised
         THEN {Outcome(l.disk, l.store, "opened", 0)}
         ELSE create_vector_store(d, files, b)
    ELSE create_vector_store(d, files, b)

reset_vector_store_keeps(d) == [disk |-> d, raised |-> FALSE]

reset_vector_store_unguarded(d) == [disk |-> Absent, raised |-> ~d.exists]

\* if os.path.exists(CHROMA_DB_PATH): shutil.rmtree(CHROMA_DB_PATH); else: print
reset_vector_store(d) ==
    IF d.exists THEN [disk |-> Absent, raised |-> FALSE]
    ELSE [disk |-> d, raised |-> FALSE]

\* vector_store.as_retriever(...) on what setup_vector_store returned: None
\* has no as_retriever, so the call raises AttributeError.
setup_rag_chain(how, store) ==
    IF how = "nodocs" THEN [raised |-> TRUE, chain |-> NoHandle]
    ELSE [raised |-> FALSE, chain |-> store]

\* ---------------------------------------------------------- the retriever
\* The similarity of a passage's text to the query, as the embedder and the
\* index's metric give it: a function of the query and of the text alone, so
\* the copies of one chunk that several builds stored score the same.
Score(q, p) ==
    IF q = "q1" THEN (IF p.src = PDF_NAME THEN 2 ELSE 1) + (IF p.idx = 1 THEN 1 ELSE 0)
    ELSE 1

Min(a, b) == IF a < b THEN a ELSE b

Injective(s) == \A i, j \in 1..Len(s) : i # j => s[i] # s[j]

TopK(ps, q, k) ==
    {s \in [1..Min(k, Cardinality(ps)) -> ps] :
        /\ Injective(s)
        /\ \A i \in 1..(Len(s) - 1) : Score(q, s[i]) >= Score(q, s[i + 1])
        /\ \A p \in ps \ Range(s) : \A i \in 1..Len(s) : Score(q, s[i]) >= Score(q, p)}

as_retriever_unbounded(ps, q) == TopK(ps, q, K + 1)

\* vector_store.as_retriever(search_kwargs={"k": 3}): the K nearest passages,
\* nearest first; the index fixes no order among passages of equal score.
as_retriever(ps, q) == TopK(ps, q, K)

\* ------------------------------------------------------------ the chunker
\* text_splitter = RecursiveCharacterTextSplitter(chunk_size, chunk_overlap,
\* separators=["\n\n", "\n", " ", ""]), with the class's defaults:
\* keep_separator=True, strip_whitespace=True, length_function=len.  A text is
\* a sequence of characters.
Alphabet == {"a", " ", "\n"}
Whitespace == {" ", "\n"}
separators == << <<"\n", "\n">>, <<"\n">>, <<" ">>, <<>> >>
Texts == UNION {[1..n -> Alphabet] : n \in 0..MaxPageLen}
NotSplit == [done |-> FALSE, out |-> <<>>]

StartsWith(text, sep) ==
    Len(sep) <= Len(text) /\ SubSeq(text, 1, Len(sep)) = sep
\* re.search(separator, text)
Contains(text, sep) ==
    \E i \in 1..Len(text) : StartsWith(SubSeq(text, i, Len(text)), sep)

RECURSIVE SplitKeep(_, _, _)
SplitKeep(text, sep, cur) ==
    IF text = <<>> THEN <<cur>>
    ELSE IF StartsWith(text, sep)
    THEN <<cur>> \o SplitKeep(SubSeq(text, Len(sep) + 1, Len(text)), sep, sep)
    ELSE SplitKeep(Tail(text), sep, Append(cur, Head(text)))

NonEmpty(s) == s # <<>>

\* _split_text_with_regex(text, separator, keep_separator=True): the pieces
\* between the separators, each separator kept at the head of the piece that
\* follows it; the characters of the text for the separator ""; no empty piece
split_text_with_regex(text, sep) ==
    IF sep = <<>>
    THEN [i \in 1..Len(text) |-> <<text[i]>>]
    ELSE SelectSeq(SplitKeep(text, sep, <<>>), NonEmpty)

RECURSIVE Flatten(_)
Flatten(ps) == IF ps = <<>> THEN <<>> ELSE Head(ps) \o Flatten(Tail(ps))

RECURSIVE LStrip(_)
LStrip(t) == IF t # <<>> /\ Head(t) \in Whitespace THEN LStrip(Tail(t)) ELSE t
RECURSIVE RStrip(_)
RStrip(t) ==
    IF t # <<>> /\ t[Len(t)] \in Whitespace THEN RStrip(SubSeq(t, 1, Len(t) - 1)) ELSE t

\* _join_docs(docs, separator): the pieces joined and stripped; None (here no
\* passage) when nothing is left
join_docs(cur) ==
    LET text == RStrip(LStrip(Flatten(cur))) IN
    IF text = <<>> THEN <<>> ELSE <<text>>

Total(cur) == Len(Flatten(cur))

\* the while loop of _merge_splits: pieces leave the head of current_doc while
\* it is longer than the overlap, or while the next piece does not fit
RECURSIVE Pop(_, _, _)
Pop(cur, len, limit) ==
    IF Total(cur) > chunk_overlap \/ (Total(cur) + len > limit /\ Total(cur) > 0)
    THEN Pop(Tail(cur), len, limit)
    ELSE cur

RECURSIVE Merge(_, _, _)
Merge(splits, cur, limit) ==
    IF splits = <<>> THEN join_docs(cur)
    ELSE LET d == Head(splits) IN
         IF Total(cur) + Len(d) > limit
         THEN (IF cur # <<>> THEN join_docs(cur) ELSE <<>>)
              \o Merge(Tail(splits), Append(Pop(cur, Len(d), limit), d), limit)
         ELSE Merge(Tail(splits), Append(cur, d), limit)

merge_splits_off_by_one(splits) == Merge(splits, <<>>, chunk_size + 1)

\* _merge_splits(splits, separator): the pieces gathered into passages of at
\* most chunk_size characters, each starting with the tail of the one before
merge_splits(splits) == Merge(splits, <<>>, chunk_size)

\* the separator _split_text picks: the first that is "" or occurs in the text
RECURSIVE PickSeparator(_, _, _)
PickSeparator(text, seps, i) ==
    IF i >= Len(seps) \/ seps[i] = <<>> \/ Contains(text, seps[i]) THEN i
    ELSE PickSeparator(text, seps, i + 1)

RECURSIVE split_text(_, _)
RECURSIVE MergeLoop(_, _, _)

\* the loop of _split_text over the pieces: the short ones are gathered and
\* merged, a piece of chunk_size or more is split again with the separators
\* left, or kept whole when none is left
MergeLoop(splits, seps, good) ==
    LET flush == IF good # <<>> THEN merge_splits(good) ELSE <<>> IN
    IF splits = <<>> THEN flush
    ELSE LET piece == Head(splits) IN
         IF Len(piece) < chunk_size
         THEN MergeLoop(Tail(splits), seps, Append(good, piece))
         ELSE flush
              \o (IF seps = <<>> THEN <<piece>> ELSE split_text(piece, seps))
              \o MergeLoop(Tail(splits), seps, <<>>)

\* RecursiveCharacterTextSplitter._split_text(text, separators)
split_text(text, seps) ==
    LET i == PickSeparator(text, seps, 1)
        sep == seps[i]
        rest == IF sep = <<>> THEN <<>> ELSE SubSeq(seps, i + 1, Len(seps)) IN
    MergeLoop(split_text_with_regex(text, sep), rest, <<>>)

\* ------------------------------------------------------------ the queries
\* rag_chain.invoke({"input": q}): the retriever reads the store the chain was
\* built on, the answer generator writes the answer.  A provider call can
\* fail, and so can the read of a store that is unreadable or deleted.
Invoke(who, h, fail) ==
    IF fail \/ h = NoHandle \/ (h.live /\ disk.corrupt)
    THEN [NoAnswer EXCEPT !.who = who, !.outcome = "error"]
    ELSE [NoAnswer EXCEPT !.who = who, !.outcome = "answered"]

\* ------------------------------------------------ selene_bot.py: chat()
\* the directory as a call finds it: "absent", "corrupt" (it cannot be read),
\* "mismatch" (it holds no collection of the caller's name) or "present"
Pre(d, col) ==
    IF ~d.exists THEN "absent"
    ELSE IF d.corrupt THEN "corrupt"
    ELSE IF col \notin d.made THEN "mismatch"
    ELSE "present"

SetupEvent(who, how, embedded, ps, seq, pre) ==
    [NoEvent EXCEPT !.op = "setup", !.who = who, !.how = how,
                    !.embedded = embedded, !.seq = seq, !.after = After(last),
                    !.stale = (last.op = "reset" /\ \E p \in ps : p.build < last.mark),
                    !.whole = HasWhole(ps), !.partial = HasPartial(ps),
                    !.pre = pre]

\* chat() up to its loop: setup_vector_store(), then setup_rag_chain(vector_store).
\* An exception here ends the process.
CliStart ==
    /\ cli.pc = "off"
    /\ nextBuild <= MaxBuilds
    /\ \E o \in setup_vector_store(disk, data, nextBuild) :
        LET c == setup_rag_chain(o.how, o.store) IN
        /\ disk' = o.disk
        /\ nextBuild' = IF o.embedded > 0 THEN nextBuild + 1 ELSE nextBuild
        /\ cli' = IF o.how \in {"partial", "failed"} \/ c.raised
                  THEN [pc |-> "off", chain |-> NoHandle]
                  ELSE [pc |-> "on", chain |-> c.chain]
        /\ last' = SetupEvent("cli", o.how, o.embedded,
                              IF o.store = NoHandle THEN {} ELSE Content(o.store, o.disk),
                              ~\E r \in Requests : InSetup(req[r]),
                              Pre(disk, CLI_COLLECTION_NAME))
    /\ req' = MarkDirty(req)
    /\ answer' = NoAnswer
    /\ UNCHANGED <<data, ragChain, aux>>

\* the loop's try: rag_chain.invoke; except: print the error and go on
CliAsk ==
    /\ cli.pc = "on"
    /\ \E fail \in BOOLEAN :
         answer' = [Invoke("cli", cli.chain, fail)
                      EXCEPT !.absent = ~disk.exists,
                             !.building = \E x \in Requests : req[x].pc = "embed"]
    /\ UNCHANGED <<data, disk, cli, ragChain, req, nextBuild, last, aux>>

\* the loop's "reset": reset_vector_store(), then continue
CliReset ==
    /\ cli.pc = "on"
    /\ LET r == reset_vector_store(disk)
           gone == disk.exists /\ ~r.disk.exists IN
        /\ disk' = r.disk
        /\ cli' = IF r.raised
                  THEN [pc |-> "off", chain |-> NoHandle]
                  ELSE [cli EXCEPT !.chain = IF gone THEN Freeze(@, disk) ELSE @]
        /\ ragChain' = IF gone THEN Freeze(ragChain, disk) ELSE ragChain
        /\ req' = MarkDirty(IF gone THEN FreezeReqs(req, disk) ELSE req)
        /\ last' = [NoEvent EXCEPT !.op = "reset", !.who = "cli",
                                   !.how = IF r.raised THEN "failed"
                                           ELSE IF disk.exists THEN "deleted" ELSE "noop",
                                   !.pre = Pre(disk, CLI_COLLECTION_NAME),
                                   !.seq = ~\E q \in Requests : InSetup(req[q]),
                                   !.after = After(last),
                                   !.mark = nextBuild]
    /\ answer' = NoAnswer
    /\ UNCHANGED <<data, nextBuild, aux>>

\* the loop's "exit"
CliExit ==
    /\ cli.pc = "on"
    /\ cli' = [pc |-> "off", chain |-> NoHandle]
    /\ answer' = NoAnswer
    /\ UNCHANGED <<data, disk, ragChain, req, nextBuild, last, aux>>

\* ------------------------------------------------------- the environment
\* a PDF is added to or removed from the data directory
ChangeCorpus ==
    /\ \E f \in Files : data' = IF f \in data THEN data \ {f} ELSE data \cup {f}
    /\ last' = [NoEvent EXCEPT !.op = "corpus", !.after = After(last)]
    /\ req' = MarkDirty(req)
    /\ answer' = NoAnswer
    /\ UNCHANGED <<disk, cli, ragChain, nextBuild, aux>>

\* the persisted store becomes unreadable
CorruptStore ==
    /\ disk.exists /\ ~disk.corrupt
    /\ disk' = [disk EXCEPT !.corrupt = TRUE]
    /\ last' = [NoEvent EXCEPT !.op = "corrupt", !.after = After(last)]
    /\ req' = MarkDirty(req)
    /\ answer' = NoAnswer
    /\ UNCHANGED <<data, cli, ragChain, nextBuild, aux>>

\* --------------------------------------------------- web_app.py: /chat
initialize_rag_always(chain) == "setup"

\* initialize_rag(): if rag_chain is None: set the store and the chain up
initialize_rag(chain) == IF chain = NoHandle THEN "setup" ELSE "invoke"

\* web_app.py's setup_rag_chain(vector_store): the retriever on the store, the
\* AzureChatOpenAI client, the prompt and the chain; the client's constructor
\* raises when the provider's settings are missing or refused.
web_setup_rag_chain(store) ==
    {[raised |-> FALSE, chain |-> store], [raised |-> TRUE, chain |-> NoHandle]}

rag_chain_assigned_early(chain, store, c) == store

\* the global after "rag_chain = setup_rag_chain(vector_store)": the
\* assignment happens only when the call returned
rag_chain_assigned(chain, store, c) == IF c.raised THEN chain ELSE c.chain

\* the request after initialize_rag(): on to rag_chain.invoke, or, an
\* exception caught by chat(), answered with the 500 error response
AfterInit(raised) == IF raised THEN NoReq ELSE [NoReq EXCEPT !.pc = "invoke"]

SetReq(r, new) == [x \in Requests |-> IF x = r THEN new ELSE req[x]]

\* chat() enters initialize_rag() and reads the global rag_chain
WebChatStart(r) ==
    /\ req[r].pc = "idle"
    /\ LET next == initialize_rag(ragChain)
           overlap == \E x \in Requests \ {r} : InSetup(req[x]) IN
       req' = [x \in Requests |->
                 IF x = r
                 THEN [NoReq EXCEPT !.pc = next, !.sawNone = (ragChain = NoHandle),
                                    !.dirty = overlap]
                 ELSE IF next = "setup" /\ InSetup(req[x])
                 THEN [req[x] EXCEPT !.dirty = TRUE]
                 ELSE req[x]]
    /\ answer' = NoAnswer
    /\ UNCHANGED <<data, disk, cli, ragChain, nextBuild, last, aux>>

\* setup_vector_store(): os.path.exists, then load_existing_vector_store() and,
\* the store opened, rag_chain = setup_rag_chain(vector_store); or the way
\* into create_vector_store()
WebSetup(r) ==
    /\ req[r].pc = "setup"
    /\ LET pre == Pre(disk, WEB_COLLECTION_NAME)
           l == load_existing_vector_store(disk, WEB_COLLECTION_NAME)
           me == [req[r] EXCEPT !.pre = pre] IN
       IF disk.exists /\ ~l.raised
       THEN /\ disk' = l.disk
            /\ \E c \in web_setup_rag_chain(l.store) :
                 /\ ragChain' = rag_chain_assigned(ragChain, l.store, c)
                 /\ req' = MarkDirty(SetReq(r, AfterInit(c.raised)))
                 /\ last' = [SetupEvent("web", "opened", 0, Content(l.store, l.disk),
                                        ~req[r].dirty, pre)
                               EXCEPT !.chain = IF c.raised THEN "raised" ELSE "set"]
       ELSE /\ req' = SetReq(r, [me EXCEPT !.pc = "create"])
            /\ UNCHANGED <<disk, ragChain, last>>
    /\ answer' = NoAnswer
    /\ UNCHANGED <<data, cli, nextBuild, aux>>

\* create_vector_store() up to the embedding: PyPDFLoader(PDF_PATH).load(),
\* split_documents, and the constructor inside Chroma.from_documents.  An
\* exception is answered with the 500 error response.
WebCreate(r) ==
    /\ req[r].pc = "create"
    /\ nextBuild <= MaxBuilds
    /\ IF PDF_NAME \notin data \/ (disk.exists /\ disk.corrupt)
       THEN /\ req' = MarkDirty(SetReq(r, NoReq))
                /\ last' = SetupEvent("web", "failed", 0, {}, ~req[r].dirty, req[r].pre)
            /\ UNCHANGED <<disk, nextBuild>>
       ELSE /\ disk' = ChromaInit(disk, WEB_COLLECTION_NAME)
            /\ req' = SetReq(r, [req[r] EXCEPT !.pc = "embed", !.build = nextBuild,
                                               !.vs = LiveHandle(WEB_COLLECTION_NAME)])
            /\ nextBuild' = nextBuild + 1
            /\ UNCHANGED last
    /\ answer' = NoAnswer
    /\ UNCHANGED <<data, cli, ragChain, aux>>

\* the rest of Chroma.from_documents: the texts embedded and upserted, then
\* rag_chain = setup_rag_chain(vector_store).  The writes go to the store the
\* constructor opened: the unlinked files when the directory was deleted
\* meanwhile.
WebEmbed(r) ==
    /\ req[r].pc = "embed"
    /\ LET me == req[r]
           cs == split_documents({PDF_NAME}, me.build) IN
       \E n \in 0..Len(cs) :
          /\ (me.vs.live /\ disk.corrupt) => n = 0
          /\ LET d == IF me.vs.live
                      THEN AddPassages(disk, WEB_COLLECTION_NAME, Prefix(cs, n))
                      ELSE disk
                 h == IF me.vs.live THEN me.vs
                      ELSE [me.vs EXCEPT !.snap = @ \cup Prefix(cs, n)] IN
             /\ disk' = d
                  /\ IF n = Len(cs)
                THEN \E c \in web_setup_rag_chain(h) :
                     /\ ragChain' = rag_chain_assigned(ragChain, h, c)
                     /\ req' = MarkDirty(SetReq(r, AfterInit(c.raised)))
                     /\ last' = [SetupEvent("web", "built", Len(cs), Content(h, d),
                                            ~me.dirty, me.pre)
                                   EXCEPT !.chain = IF c.raised THEN "raised" ELSE "set"]
                ELSE /\ ragChain' = ragChain
                     /\ req' = MarkDirty(SetReq(r, NoReq))
                     /\ last' = SetupEvent("web", "partial", Len(cs), {},
                                           ~me.dirty, me.pre)
    /\ answer' = NoAnswer
    /\ UNCHANGED <<data, cli, nextBuild, aux>>

\* rag_chain.invoke({"input": user_message}) on the global, then the response;
\* any exception is answered with the 500 error response
WebInvoke(r) ==
    /\ req[r].pc = "invoke"
    /\ \E fail \in BOOLEAN :
         answer' = [Invoke("web", ragChain, fail)
                      EXCEPT !.absent = ~disk.exists,
                             !.building = \E x \in Requests \ {r} : req[x].pc = "embed"]
    /\ req' = SetReq(r, NoReq)
    /\ UNCHANGED <<data, disk, cli, ragChain, nextBuild, last, aux>>

\* the server process is restarted: the global is None again and the requests
\* it was handling are gone, a build among them abandoned where it stood
WebRestart ==
    /\ ragChain # NoHandle \/ \E r \in Requests : req[r].pc # "idle"
    /\ ragChain' = NoHandle
    /\ req' = [r \in Requests |-> NoReq]
    /\ last' = IF \E r \in Requests : InSetup(req[r])
               THEN [NoEvent EXCEPT !.op = "abandon", !.who = "web", !.after = After(last)]
               ELSE last
    /\ answer' = NoAnswer
    /\ UNCHANGED <<data, disk, cli, nextBuild, aux>>

Init ==
    /\ data \in SUBSET Files
    /\ disk = Absent
    /\ cli = [pc |-> "off", chain |-> NoHandle]
    /\ ragChain = NoHandle
    /\ req = [r \in Requests |-> NoReq]
    /\ nextBuild = 1
    /\ last = NoEvent
    /\ answer = NoAnswer
    /\ index = {}
    /\ question = "none"
    /\ docs = <<>>
    /\ page = <<>>
    /\ chunks = NotSplit

Next ==
    \/ CliStart
    \/ CliAsk
    \/ CliReset
    \/ CliExit
    \/ \E r \in Requests : WebChatStart(r)
    \/ \E r \in Requests : WebSetup(r)
    \/ \E r \in Requests : WebCreate(r)
    \/ \E r \in Requests : WebEmbed(r)
    \/ \E r \in Requests : WebInvoke(r)
    \/ WebRestart
    \/ ChangeCorpus
    \/ CorruptStore

Spec == Init /\ [][Next]_vars


\* ------------------------------------------------ the retriever, alone
\* what one build can have written to a collection: a prefix of the passages
\* of the PDF files it found
BuildWrites(b) ==
    UNION {{Prefix(split_documents(fs, b), n) : n \in 0..Len(split_documents(fs, b))}
             : fs \in SUBSET Files}

\* the collections the builds can leave behind
RECURSIVE StoresUpTo(_)
StoresUpTo(b) ==
    IF b = 0 THEN {{}}
    ELSE {st \cup w : st \in StoresUpTo(b - 1), w \in BuildWrites(b)}

InitRetriever ==
    /\ data = {}
    /\ disk = Absent
    /\ cli = [pc |-> "off", chain |-> NoHandle]
    /\ ragChain = NoHandle
    /\ req = [r \in Requests |-> NoReq]
    /\ nextBuild = 1
    /\ last = NoEvent
    /\ answer = NoAnswer
    /\ index \in StoresUpTo(MaxBuilds)
    /\ question = "none"
    /\ docs = <<>>
    /\ page = <<>>
    /\ chunks = NotSplit

\* retriever.invoke(query)
Retrieve ==
    /\ question = "none"
    /\ \E q \in Queries : \E s \in as_retriever(index, q) :
         /\ question' = q
         /\ docs' = s
    /\ UNCHANGED <<mainVars, index, page, chunks>>

NextRetriever == Retrieve

SpecRetriever == InitRetriever /\ [][NextRetriever]_vars

\* -------------------------------------------------- the chunker, alone
InitChunker ==
    /\ data = {}
    /\ disk = Absent
    /\ cli = [pc |-> "off", chain |-> NoHandle]
    /\ ragChain = NoHandle
    /\ req = [r \in Requests |-> NoReq]
    /\ nextBuild = 1
    /\ last = NoEvent
    /\ answer = NoAnswer
    /\ index = {}
    /\ question = "none"
    /\ docs = <<>>
    /\ page \in Texts
    /\ chunks = NotSplit

\* text_splitter.split_documents on a page: a passage for each text that
\* split_text makes of the page's text
SplitPage ==
    /\ ~chunks.done
    /\ chunks' = [done |-> TRUE, out |-> split_text(page, separators)]
    /\ UNCHANGED <<mainVars, index, question, docs, page>>

NextChunker == SplitPage

SpecChunker == InitChunker /\ [][NextChunker]_vars

\* ------------------------------------------------------------ the properties
\* what a step adds to the index: a build id taken, or passages written
Builds == nextBuild' # nextBuild
          \/ \E c \in Collections : ~(disk'.cols[c] \subseteq disk.cols[c])

\* C1: a setup_vector_store call that runs right after a call that built the
\* index, with no reset, corpus change or other call in between or alongside,
\* opens the persisted index: create_vector_store is not entered and no text
\* is sent to the embedder.
C1_CacheReuse ==
    (last.op = "setup" /\ last.after = "built" /\ last.seq)
        => (last.how = "opened" /\ last.embedded = 0 /\ ~RanCreate(last))

C1_Witness ==
    /\ last.op = "setup" /\ last.after = "built" /\ last.seq
    /\ last.how = "opened" /\ last.whole

\* C2: the setup_vector_store call that follows a reset_vector_store enters
\* create_vector_store, and a store it returns holds no passage written before
\* the reset.
C2_ResetThenRebuild ==
    (last.op = "setup" /\ last.after = "reset" /\ last.seq)
        => (RanCreate(last) /\ ~last.stale)

C2_Witness ==
    /\ last.op = "setup" /\ last.after = "reset" /\ last.seq
    /\ last.how = "built" /\ last.pre = "absent" /\ nextBuild > 2

\* C3: when the chroma_db directory exists but cannot be opened on the
\* configured collection (it is unreadable, or was populated under another
\* collection name), a setup_vector_store call that returns a store has run
\* create_vector_store and the store holds a whole build's passages.
C3_OpenFailureRebuilds ==
    (last.op = "setup" /\ last.pre \in {"corrupt", "mismatch"} /\ Ret(last) = "store")
        => (RanCreate(last) /\ last.whole)

\* C4: no setup_vector_store call returns a store that holds part of a build's
\* passages and not the rest.
C4_NoReadyOnPartialIndex ==
    (last.op = "setup" /\ Ret(last) = "store") => ~last.partial

\* C5: with no PDF in the data directory and no chroma_db directory, the
\* CLI's setup_vector_store raises (a ConfigurationError); it does not return.
C5_EmptyCorpusRaises ==
    (last.op = "setup" /\ last.who = "cli" /\ last.pre = "absent" /\ data = {})
        => Ret(last) = "raise"

\* C6: a query made while the chroma_db directory is absent or while a build
\* is in progress is not answered: it fails.
C6_QueryFailsUnlessReady ==
    (answer.outcome # "none" /\ (answer.absent \/ answer.building))
        => answer.outcome = "error"

\* C7 as stated: create_vector_store is never run on behalf of the /chat
\* request handler.
C7_ChatNeverBuilds ==
    (last.op = "setup" /\ RanCreate(last)) => last.who # "web"

\* C7 as amended: the retrieval step (rag_chain.invoke, in the CLI loop and in
\* /chat) adds nothing to the index; a build id is taken or passages are
\* written only by the CLI's start-up, before its loop, or by a /chat request
\* inside the initialisation it entered because it found rag_chain None.
C7_BuildOnlyFromSetup ==
    [][ /\ answer'.outcome # "none" => ~Builds
        /\ Builds => \/ cli.pc = "off" /\ last'.who = "cli" /\ last'.op = "setup"
                     \/ \E r \in Requests :
                            req[r].pc \in {"create", "embed"} /\ req[r].sawNone
      ]_vars

C7_Witness ==
    /\ last.op = "setup" /\ last.who = "web" /\ last.how = "built"
    /\ \E r \in Requests : req[r].pc = "invoke"

\* C8: reset_vector_store leaves no chroma_db directory and raises nothing;
\* called when there is none, it changes nothing (the directory stays absent,
\* the CLI goes on).
C8_ResetLeavesAbsent ==
    [][ CliReset => /\ disk' = Absent
                    /\ last'.how \in {"deleted", "noop"}
                    /\ cli'.pc = "on"
                    /\ ~disk.exists => (last'.how = "noop" /\ cli' = cli)
      ]_vars

C8_Witness ==
    last.op = "reset" /\ last.how = "noop" /\ last.after = "reset" /\ disk = Absent


IsToken(t) == \A i \in 1..Len(t) : t[i] \notin Whitespace

\* C10: no passage is longer than chunk_size unless it is a single token (no
\* whitespace in it) that cannot be split; no passage is empty; a page with
\* empty text yields no passage.

C10_PassagesBounded ==
    chunks.done =>
        /\ \A i \in 1..Len(chunks.out) :
              /\ chunks.out[i] # <<>>
              /\ Len(chunks.out[i]) <= chunk_size \/ IsToken(chunks.out[i])
        /\ page = <<>> => chunks.out = <<>>

C10_Witness ==
    /\ chunks.done
    /\ Len(page) > chunk_size
    /\ Len(chunks.out) >= 2
    /\ \E i \in 1..Len(page) : page[i] \in Whitespace

\* the /chat requests that are inside create_vector_store(): at its loading
\* and splitting, or inside Chroma.from_documents
InCreate == {r \in Requests : req[r].pc \in {"create", "embed"}}

\* C11: at most one index build is in progress at a time on the web app's
\* collection: of the /chat requests handled concurrently, no two are inside
\* create_vector_store at the same time.
C11_AtMostOneBuild == Cardinality(InCreate) <= 1

\* a web setup event that ended in an exception: setup_vector_store raised,
\* or setup_rag_chain did on the store it returned
Raised(e) ==
    /\ e.op = "setup" /\ e.who = "web"
    /\ e.how \in {"failed", "partial"} \/ e.chain = "raised"

\* request r leaves initialize_rag() in this step, its process still running
LeavesInit(r) == InSetup(req[r]) /\ ~InSetup(req'[r]) /\ last'.op # "abandon"

\* rag_chain goes from None to a chain only in a step that ends an
\* initialisation in which neither setup_vector_store nor setup_rag_chain raised
SetOnlyByCompleteInit ==
    (ragChain = NoHandle /\ ragChain' # NoHandle)
        => /\ \E r \in Requests : LeavesInit(r)
           /\ last'.op = "setup" /\ last'.who = "web"
           /\ last'.how \in {"opened", "built"} /\ last'.chain = "set"

\* a /chat request reads the global once, on entry: None sends it into the
\* initialisation, a chain straight to rag_chain.invoke
EntryByGlobal ==
    \A r \in Requests :
        (req[r].pc = "idle" /\ req'[r].pc # "idle")
            => req'[r].pc = IF ragChain = NoHandle THEN "setup" ELSE "invoke"

\* C12 as stated: rag_chain is non-None only after an initialisation ran to
\* completion; when setup_vector_store or setup_rag_chain raises, the request
\* gets the error response and rag_chain is None afterwards; a request that
\* finds None initialises again and one that finds a chain does not.
C12_FailedInitLeavesNone ==
    [][ /\ SetOnlyByCompleteInit
        /\ EntryByGlobal
        /\ \A r \in Requests :
              LeavesInit(r) =>
                 IF Raised(last')
                 THEN req'[r].pc = "idle" /\ ragChain' = NoHandle
                 ELSE req'[r].pc = "invoke" /\ ragChain' # NoHandle ]_vars

\* C12, amended: as above, but a request whose initialisation raised leaves
\* rag_chain as it was; that is None when no other request was initialising
\* alongside, and can be the chain that a concurrent request has set.
C12_FailedInitAssignsNothing ==
    [][ /\ SetOnlyByCompleteInit
        /\ EntryByGlobal
        /\ \A r \in Requests :
              LeavesInit(r) =>
                 IF Raised(last')
                 THEN /\ req'[r].pc = "idle"
                      /\ ragChain' = ragChain
                      /\ ~req[r].dirty => ragChain' = NoHandle
                 ELSE req'[r].pc = "invoke" /\ ragChain' # NoHandle ]_vars

\* an initialisation raised in setup_rag_chain, rag_chain is still None, and
\* the next request is initialising again
C12_Witness ==
    /\ Raised(last) /\ last.chain = "raised" /\ last.seq
    /\ ragChain = NoHandle
    /\ \E r \in Requests : req[r].pc = "setup" /\ ~req[r].dirty

====
